---- MODULE Spec2Model ----
(***************************************************************************)
(* Model of the MSSQL MCP server (src/src/index.ts): the CallTool          *)
(* dispatcher, the wrappers installed by wrapToolRun, and the connection   *)
(* lifecycle of ensureSqlConnection around the global pool reference.      *)
(*                                                                         *)
(* Execution model.  Node runs one callback at a time; an async function   *)
(* runs synchronously up to an await on a pending promise and is resumed   *)
(* by a later callback.  Every action below is one such run-to-completion  *)
(* segment.  An await on an already settled promise (the return of         *)
(* ensureSqlConnection into the wrapper) is resumed from the microtask     *)
(* queue before any I/O or timer callback, so it belongs to the segment    *)
(* that settled it.  Several CallTool requests may be in flight at once:   *)
(* the SDK starts a handler per message and does not wait for the          *)
(* previous one.                                                           *)
(*                                                                         *)
(* The mssql driver is the environment: sql.connect(config) either         *)
(* rejects with a message or resolves with a pool object of its own        *)
(* identity that reports connected; a pool may lose its connection and may *)
(* emit 'error' at any time.                                               *)
(***************************************************************************)
EXTENDS Integers, Sequences, FiniteSets, TLC

\* ---------------------------------------------------------------- bounds
MaxDispatch == 2
MaxPools == 2

\* ------------------------------------------------------- program constants
MAX_RETRY_ATTEMPTS == 3

NoPool == 0
Dispatches == 1..MaxDispatch
PoolIds == 1..MaxPools

\* The eight tool objects constructed at module load.
Tools ==
  {"insertDataTool", "readDataTool", "updateDataTool", "createTableTool",
   "createIndexTool", "listTableTool", "dropTableTool", "describeTableTool"}

\* tool.name of each tool object.
Name(tool) ==
  CASE tool = "insertDataTool" -> "insert_data"
    [] tool = "readDataTool" -> "read_data"
    [] tool = "updateDataTool" -> "update_data"
    [] tool = "createTableTool" -> "create_table"
    [] tool = "createIndexTool" -> "create_index"
    [] tool = "listTableTool" -> "list_table"
    [] tool = "dropTableTool" -> "drop_table"
    [] tool = "describeTableTool" -> "describe_table"

ToolNames == {Name(t) : t \in Tools}
UnknownNames == {"delete_all"}

\* The CallTool requests a client sends.  args is request.params.arguments by
\* what the dispatcher can observe of it: "absent" (undefined), "noTableName"
\* (an object whose tableName is not a string), "valid" (a well-formed object).
Requests ==
  [name : ToolNames, args : {"absent", "valid"}]
    \cup [name : {"describe_table"}, args : {"noTableName"}]
    \cup [name : UnknownNames, args : {"absent"}]

\* Messages of driver failures, and of the config failure of createSqlConfig.
ConnectErrors == {"ETIMEOUT", "ELOGIN"}
ConfigError == "Invalid port number"
NoError == "none"

\* Messages of the errors close() of a pool rejects with.
CloseErrors == {"ECLOSE"}

\* Messages of the faults a tool handler raises (a rejected query).
HandlerErrors == {"EREQUEST", "EPARAM"}

VARIABLES
  modulePc,       \* position in the evaluation of the module body
  wrapped,        \* tools whose run has been replaced by the wrapper
  isReadOnly,     \* READONLY === "true", read once at load
  env,            \* process.env
  platform,       \* os.platform()
  config,         \* the outcome of the last createSqlConfig() call made on its own
  listed,         \* the tools of the last ListTools answer
  arrival,        \* the in-flight dispatches in the order their requests arrived
  globalSqlPool,  \* the pool reference: NoPool or a pool id
  nextPool,       \* driver: identity of the next pool object it creates
  poolConnected,  \* driver: pool.connected of each pool object
  closeCalled,    \* pools on which close() has been called
  fired,          \* pools whose 'error' observer has run
  reconnectDue,   \* an observer has run and ensureSqlConnection was not called since
  req             \* the in-flight CallTool dispatches

vars ==
  <<modulePc, wrapped, isReadOnly, env, platform, config, listed, arrival,
    globalSqlPool, nextPool, poolConnected, closeCalled, fired, reconnectDue, req>>

\* ------------------------------------------------------------ environment
\* A JavaScript number: NaN or an integer.
NaN == [nan |-> TRUE, val |-> 0]
Num(n) == [nan |-> FALSE, val |-> n]

\* An environment variable read as a number, by what parseInt and the
\* truthiness test see of its text: whether it is set, whether the text starts
\* with a decimal integer (optional sign, digits) and which, and whether other
\* characters follow.  EnvEmpty is the empty string, EnvInt(80) is "80",
\* EnvIntJunk(80) is "80abc", EnvJunk is "abc".
EnvUnset == [set |-> FALSE, numeric |-> FALSE, val |-> 0, rest |-> FALSE]
EnvEmpty == [set |-> TRUE, numeric |-> FALSE, val |-> 0, rest |-> FALSE]
EnvInt(n) == [set |-> TRUE, numeric |-> TRUE, val |-> n, rest |-> FALSE]
EnvIntJunk(n) == [set |-> TRUE, numeric |-> TRUE, val |-> n, rest |-> TRUE]
EnvJunk == [set |-> TRUE, numeric |-> FALSE, val |-> 0, rest |-> TRUE]

\* process.env.PORT: unset, the decimal text of an integer, or other text.
PortUnset == EnvUnset
PortText(n) == EnvInt(n)
PortJunk == EnvJunk

\* An environment variable read as text: undefined or a string.
Undefined == [set |-> FALSE, text |-> ""]
Text(str) == [set |-> TRUE, text |-> str]

\* The values of PORT the dispatch specification starts from.
DispatchPorts == {PortUnset, PortText(0)}

\* An environment with every documented variable given and the optional ones
\* left out.
DefaultEnv ==
  [SERVER_NAME |-> Text("db.example"), DATABASE_NAME |-> Text("sales"),
   SQL_USERNAME |-> Text("app"), SQL_PASSWORD |-> Text("secret"),
   PORT |-> EnvUnset, CONNECTION_TIMEOUT |-> EnvUnset,
   TRUST_SERVER_CERTIFICATE |-> Undefined]

DispatchEnvs == {[DefaultEnv EXCEPT !.PORT = p] : p \in DispatchPorts}

\* The environments and platforms createSqlConfig is resolved under.
PortValues == {-1, 0, 1, 80, 1433, 65535, 65536}
PortTexts ==
  {EnvUnset, EnvEmpty, EnvJunk, EnvIntJunk(80), EnvIntJunk(0)}
    \cup {EnvInt(n) : n \in PortValues}
TimeoutTexts ==
  {EnvUnset, EnvEmpty, EnvJunk, EnvInt(0), EnvInt(15), EnvInt(60), EnvIntJunk(15)}
TrustTexts ==
  {Undefined, Text(""), Text("true"), Text("TRUE"), Text("false"), Text("1")}
Platforms == {"darwin", "linux", "win32"}

ConfigEnvs ==
  [SERVER_NAME : {Undefined, Text("db.example")},
   DATABASE_NAME : {Undefined, Text("sales")},
   SQL_USERNAME : {Undefined, Text("app")},
   SQL_PASSWORD : {Undefined, Text("secret")},
   PORT : PortTexts, CONNECTION_TIMEOUT : TimeoutTexts,
   TRUST_SERVER_CERTIFICATE : TrustTexts]

\* ------------------------------------------------------------ createSqlConfig
\* process.env.X ? ... : ...  (undefined and the empty string are falsy)
Truthy(e) == e.set /\ (e.numeric \/ e.rest)

\* parseInt(text, 10): the leading integer of the text, NaN when there is none;
\* what follows the integer is ignored.
parseInt(e) == IF e.numeric THEN Num(e.val) ELSE NaN

\* String.prototype.toLowerCase on the texts of TrustTexts.
toLowerCase(str) == IF str = "TRUE" THEN "true" ELSE str

\* process.env.TRUST_SERVER_CERTIFICATE?.toLowerCase() === 'true'
trustServerCertificate(t) == t.set /\ toLowerCase(t.text) = "true"

\* process.env.CONNECTION_TIMEOUT ? parseInt(process.env.CONNECTION_TIMEOUT, 10) : 30
connectionTimeout(e) == IF Truthy(e) THEN parseInt(e) ELSE Num(30)

\* const port = process.env.PORT ? parseInt(process.env.PORT, 10) : 1433
ParsePort(e) == IF Truthy(e) THEN parseInt(e) ELSE Num(1433)

\* if (isNaN(port) || port < 1 || port > 65535) throw
PortRejected(port) == port.nan \/ port.val < 1 \/ port.val > 65535

\* Variant of adjustedTimeout: macOS always gets 60.
adjustedTimeoutForced(e, isMacOS) ==
  IF isMacOS THEN Num(60) ELSE connectionTimeout(e)

\* isMacOS && !process.env.CONNECTION_TIMEOUT ? 60 : connectionTimeout
adjustedTimeout(e, isMacOS) ==
  IF isMacOS /\ ~Truthy(e) THEN Num(60) ELSE connectionTimeout(e)

\* adjustedTimeout * 1000
Millis(x) == IF x.nan THEN NaN ELSE Num(x.val * 1000)

\* No createSqlConfig() call has been made / the call threw.
NoConfig == [ok |-> FALSE, error |-> NoError]
ConfigFailure == [ok |-> FALSE, error |-> ConfigError]

\* createSqlConfig(): the config, or the thrown error.
createSqlConfig(e, plat) ==
  LET port == ParsePort(e.PORT)
      isMacOS == plat = "darwin"
      timeout == adjustedTimeout(e.CONNECTION_TIMEOUT, isMacOS)
  IN IF PortRejected(port) THEN ConfigFailure
     ELSE [ok |-> TRUE,
           server |-> e.SERVER_NAME,
           port |-> port.val,
           database |-> e.DATABASE_NAME,
           user |-> e.SQL_USERNAME,
           password |-> e.SQL_PASSWORD,
           options |->
             [encrypt |-> TRUE,
              trustServerCertificate |->
                IF isMacOS THEN TRUE
                ELSE trustServerCertificate(e.TRUST_SERVER_CERTIFICATE),
              enableArithAbort |-> TRUE,
              minVersion |-> IF isMacOS THEN Text("TLSv1.2") ELSE Undefined],
           connectionTimeout |-> Millis(timeout),
           requestTimeout |-> Millis(timeout),
           pool |-> [max |-> 10, min |-> 0, idleTimeoutMillis |-> 30000,
                     acquireTimeoutMillis |-> Millis(timeout)]]

\* ------------------------------------------------------------ dispatch record
NoEnvelope == [isError |-> FALSE, kind |-> "none", detail |-> ""]

IdleReq ==
  [pc |-> "idle", name |-> "", args |-> "", attempt |-> 0,
   closeErr |-> NoError, lastError |-> NoError, driverErr |-> NoError,
   connects |-> 0, waits |-> <<>>,
   ensureOk |-> FALSE, handlerRuns |-> 0, usedPool |-> NoPool, usedReady |-> FALSE,
   fault |-> NoError, envelope |-> NoEnvelope]

\* return { content: [...], isError: true } / return { content: [...] }
Done(r, e) == [r EXCEPT !.pc = "done", !.envelope = e]

\* The handler has settled: only its outcome and the count of its runs remain.
Settled(r) == [IdleReq EXCEPT !.ensureOk = r.ensureOk, !.handlerRuns = r.handlerRuns]

\* ------------------------------------------------------------ CallTool switch
\* Variant of SwitchCase: the default case falls into the list_table case.
SwitchCaseFallsThrough(name) ==
  IF \E t \in Tools : Name(t) = name
  THEN CHOOSE t \in Tools : Name(t) = name
  ELSE "listTableTool"

\* switch (name): the tool whose case matches, or "default".
SwitchCase(name) ==
  IF \E t \in Tools : Name(t) = name
  THEN CHOOSE t \in Tools : Name(t) = name
  ELSE "default"

\* !args || typeof args.tableName !== "string"
TableNameMissing(args) == args = "absent" \/ args = "noTableName"

UnknownToolEnvelope(name) ==
  [isError |-> TRUE, kind |-> "Unknown tool", detail |-> name]

MissingTableNameEnvelope ==
  [isError |-> TRUE, kind |-> "Missing or invalid 'tableName'",
   detail |-> "describe_table"]

ResultEnvelope == [isError |-> FALSE, kind |-> "result", detail |-> ""]

\* Variant of ErrorEnvelope: the catch block leaves out the isError mark.
ErrorEnvelopeUnmarked(msg) ==
  [isError |-> FALSE, kind |-> "Error occurred", detail |-> msg]

\* catch (error) { return { ..., text: `Error occurred: ${error}`, isError: true } }
ErrorEnvelope(msg) == [isError |-> TRUE, kind |-> "Error occurred", detail |-> msg]

\* Variant of OnHandlerFault: the operation is run once more after a fault.
OnHandlerFaultRetries(r, m) ==
  IF r.handlerRuns < 2 THEN [r EXCEPT !.handlerRuns = @ + 1]
  ELSE Done([Settled(r) EXCEPT !.fault = m], ErrorEnvelope(m))

\* await tool.run(args) rejects with message m: the catch returns the error
\* envelope; nothing is run again.
OnHandlerFault(r, m) == Done([Settled(r) EXCEPT !.fault = m], ErrorEnvelope(m))

\* ------------------------------------------------------------ ensureSqlConnection
\* Variant of FastPath: the connected test is inverted.
FastPathInverted(pool, conn) == pool # NoPool /\ ~conn[pool]

\* if (globalSqlPool && globalSqlPool.connected) return
FastPath(pool, conn) == pool # NoPool /\ conn[pool]

\* Variant of LoopContinues: the loop bound is off by one.
LoopContinuesOffByOne(attempt) == attempt <= MAX_RETRY_ATTEMPTS + 1

\* for (...; attempt <= MAX_RETRY_ATTEMPTS; ...)
LoopContinues(attempt) == attempt <= MAX_RETRY_ATTEMPTS

\* if (attempt < MAX_RETRY_ATTEMPTS) { await delay }
ShouldBackoff(attempt) == attempt < MAX_RETRY_ATTEMPTS

Min(a, b) == IF a < b THEN a ELSE b

\* Variant of delay: the exponent is attempt instead of attempt - 1.
delayOffByOne(attempt) == Min(1000 * 2 ^ attempt, 10000)

\* Math.min(1000 * Math.pow(2, attempt - 1), 10000)
delay(attempt) == Min(1000 * 2 ^ (attempt - 1), 10000)

\* lastError = err
CatchError(prev, err) == err

\* Variant of OnPoolError: the observer logs and leaves the reference alone.
OnPoolErrorKeeps(pool) == pool

\* The pool 'error' observer: globalSqlPool = null
OnPoolError(pool) == NoPool

\* The pool a handler works on: the one the reference holds when it is invoked.
HandlerPool(pool) == pool

\* return originalRun(...args); usedReady records whether the reference holds a
\* pool that reports connected at this moment.
Invoke(r, pool, conn) ==
  [r EXCEPT !.pc = "running", !.handlerRuns = @ + 1,
            !.usedPool = HandlerPool(pool),
            !.usedReady = (pool # NoPool /\ conn[pool])]

\* ensureSqlConnection returns: its locals are gone.
Return(r) ==
  [r EXCEPT !.ensureOk = TRUE, !.closeErr = NoError, !.lastError = NoError,
            !.driverErr = NoError]

\* throw new Error(`Failed to connect after ... Last error: ${lastError?.message}`),
\* caught by the CallTool handler.
Throw(r) == Done(r, ErrorEnvelope(r.lastError))

RECURSIVE Attempt(_, _)
RECURSIVE Catch(_, _, _)

\* The loop test before iteration `attempt`.
Iterate(r, attempt) ==
  IF LoopContinues(attempt) THEN Attempt(r, attempt) ELSE Throw(r)

\* The try block of iteration `attempt`, up to its await.
Attempt(r, attempt) ==
  IF createSqlConfig(env, platform).ok
  THEN [r EXCEPT !.pc = "connecting", !.attempt = attempt, !.connects = @ + 1]
  ELSE Catch([r EXCEPT !.attempt = attempt], attempt, ConfigError)

\* The catch block of iteration `attempt`, up to its await or to the throw.
Catch(r, attempt, err) ==
  LET r1 == [r EXCEPT !.lastError = CatchError(@, err), !.driverErr = err] IN
  IF ShouldBackoff(attempt)
  THEN [r1 EXCEPT !.pc = "backoff", !.waits = Append(@, delay(attempt))]
  ELSE Iterate(r1, attempt + 1)

\* Variant of AfterClose: an error of close() leaves ensureSqlConnection.
AfterCloseRethrows(r, err) ==
  IF err # NoError THEN Done(r, ErrorEnvelope(err)) ELSE Iterate(r, 1)

\* try { await globalSqlPool.close() } catch (err) { debugLog(...) }: whether
\* close resolved or rejected with err, the loop starts at attempt 1.
AfterClose(r, err) == Iterate([r EXCEPT !.closeErr = err], 1)

\* ensureSqlConnection() from its entry to its first await, then the wrapper.
Ensure(r, pool, conn) ==
  IF FastPath(pool, conn) THEN Invoke(Return(r), pool, conn)
  ELSE IF pool # NoPool THEN [r EXCEPT !.pc = "closing"]
  ELSE Iterate(r, 1)

\* ------------------------------------------------------------ wrapToolRun
\* Variant of WrappedTools: describeTableTool is left out of the list.
WrappedToolsMissingOne ==
  {"insertDataTool", "readDataTool", "updateDataTool", "createTableTool",
   "createIndexTool", "dropTableTool", "listTableTool"}

\* The list handed to forEach(wrapToolRun).
WrappedTools ==
  {"insertDataTool", "readDataTool", "updateDataTool", "createTableTool",
   "createIndexTool", "dropTableTool", "listTableTool", "describeTableTool"}

\* tool.run(args): the wrapper once installed, the original before.
ToolRun(tool, r, pool, conn) ==
  IF tool \in wrapped THEN Ensure(r, pool, conn) ELSE Invoke(r, pool, conn)

\* The CallTool handler from its entry to its first await or return.  name and
\* args are not read after the switch, so the record no longer carries them.
CallTool(q, pool, conn) ==
  LET r == [IdleReq EXCEPT !.pc = "dispatched"]
      tool == SwitchCase(q.name)
  IN IF tool = "default" THEN Done(r, UnknownToolEnvelope(q.name))
     ELSE IF tool = "describeTableTool" /\ TableNameMissing(q.args)
          THEN Done(r, MissingTableNameEnvelope)
     ELSE ToolRun(tool, r, pool, conn)

\* Whether the CallTool handler reaches ensureSqlConnection for request q.
EnsureCalled(q) ==
  LET tool == SwitchCase(q.name) IN
    /\ tool # "default"
    /\ ~(tool = "describeTableTool" /\ TableNameMissing(q.args))
    /\ tool \in wrapped

\* Variant of ListedTools: the answer does not depend on the mode.
ListedToolsIgnoresMode(readOnly) ==
  {"insertDataTool", "readDataTool", "describeTableTool", "updateDataTool",
   "createTableTool", "createIndexTool", "dropTableTool", "listTableTool"}

\* The ListTools handler: the tools advertised under READONLY and otherwise.
ListedTools(readOnly) ==
  IF readOnly THEN {"listTableTool", "readDataTool", "describeTableTool"}
  ELSE {"insertDataTool", "readDataTool", "describeTableTool", "updateDataTool",
        "createTableTool", "createIndexTool", "dropTableTool", "listTableTool"}

\* No ListTools request has been answered.
NoList == {"none"}

\* ------------------------------------------------------------ initial state
Init ==
  /\ modulePc = "setRequestHandlers"
  /\ wrapped = {}
  /\ isReadOnly \in BOOLEAN
  /\ env \in DispatchEnvs
  /\ platform = "linux"
  /\ config = NoConfig
  /\ listed = NoList
  /\ arrival = <<>>
  /\ globalSqlPool = NoPool
  /\ nextPool = 1
  /\ poolConnected = [p \in PoolIds |-> FALSE]
  /\ closeCalled = {}
  /\ fired = {}
  /\ reconnectDue = FALSE
  /\ req = [d \in Dispatches |-> IdleReq]

\* ------------------------------------------------------------ module body
\* server.setRequestHandler(ListTools...), server.setRequestHandler(CallTool...)
SetRequestHandlers ==
  /\ modulePc = "setRequestHandlers"
  /\ modulePc' = "runServer"
  /\ UNCHANGED <<wrapped, isReadOnly, env, platform, config, listed, arrival, globalSqlPool, nextPool,
                 poolConnected, closeCalled, fired, reconnectDue, req>>

\* runServer(): the transport is connected; its callbacks wait for the loop.
RunServer ==
  /\ modulePc = "runServer"
  /\ modulePc' = "wrapTools"
  /\ UNCHANGED <<wrapped, isReadOnly, env, platform, config, listed, arrival, globalSqlPool, nextPool,
                 poolConnected, closeCalled, fired, reconnectDue, req>>

\* [...].forEach(wrapToolRun): the last statement of the module body.
WrapTools ==
  /\ modulePc = "wrapTools"
  /\ wrapped' = wrapped \cup WrappedTools
  /\ modulePc' = "eventLoop"
  /\ UNCHANGED <<isReadOnly, env, platform, config, listed, arrival, globalSqlPool, nextPool,
                 poolConnected, closeCalled, fired, reconnectDue, req>>

\* ------------------------------------------------------------ dispatch
\* A CallTool request arrives on the transport; the SDK schedules its handler,
\* which runs before the next message is read.
Receive(d, q) ==
  /\ modulePc = "eventLoop"
  /\ req[d].pc = "idle"
  /\ \A e \in Dispatches : e < d => req[e].pc # "idle"
  /\ \A e \in Dispatches : req[e].pc # "received"
  /\ req' = [req EXCEPT ![d] = [IdleReq EXCEPT !.pc = "received", !.name = q.name,
                                               !.args = q.args]]
  /\ arrival' = Append(arrival, d)
  /\ UNCHANGED <<modulePc, wrapped, isReadOnly, env, platform, config, listed, globalSqlPool,
                 nextPool, poolConnected, closeCalled, fired, reconnectDue>>

\* The CallTool handler runs on the request of slot d.
Dispatch(d) ==
  /\ req[d].pc = "received"
  /\ LET r == CallTool(req[d], globalSqlPool, poolConnected) IN
       /\ req' = [req EXCEPT ![d] = r]
       /\ closeCalled' =
            IF r.pc = "closing" THEN closeCalled \cup {globalSqlPool}
            ELSE closeCalled
  /\ reconnectDue' = (reconnectDue /\ ~EnsureCalled(req[d]))
  /\ UNCHANGED <<modulePc, wrapped, isReadOnly, env, platform, config, listed, arrival, globalSqlPool,
                 nextPool, poolConnected, fired>>

\* await globalSqlPool.close() settles, resolved (err = NoError) or rejected
\* with err; globalSqlPool = null; the loop starts.
CloseSettles(d, err) ==
  /\ req[d].pc = "closing"
  /\ globalSqlPool' = NoPool
  /\ req' = [req EXCEPT ![d] = AfterClose(req[d], err)]
  /\ UNCHANGED <<modulePc, wrapped, isReadOnly, env, platform, config, listed, arrival, nextPool,
                 poolConnected, closeCalled, fired, reconnectDue>>

\* await sql.connect(config) resolves: the reference is assigned, the observer
\* registered, ensureSqlConnection returns and the wrapper calls the handler.
ConnectResolves(d) ==
  /\ req[d].pc = "connecting"
  /\ nextPool <= MaxPools
  /\ nextPool' = nextPool + 1
  /\ poolConnected' = [poolConnected EXCEPT ![nextPool] = TRUE]
  /\ globalSqlPool' = nextPool
  /\ req' = [req EXCEPT ![d] = Invoke(Return(req[d]), globalSqlPool', poolConnected')]
  /\ UNCHANGED <<modulePc, wrapped, isReadOnly, env, platform, config, listed, arrival, closeCalled, fired, reconnectDue>>

\* await sql.connect(config) rejects with message m.
ConnectRejects(d, m) ==
  /\ req[d].pc = "connecting"
  /\ req' = [req EXCEPT ![d] = Catch(req[d], req[d].attempt, m)]
  /\ UNCHANGED <<modulePc, wrapped, isReadOnly, env, platform, config, listed, arrival, globalSqlPool,
                 nextPool, poolConnected, closeCalled, fired, reconnectDue>>

\* The backoff timer fires: attempt++ and the next iteration.
BackoffElapses(d) ==
  /\ req[d].pc = "backoff"
  /\ req' = [req EXCEPT ![d] = Iterate(req[d], req[d].attempt + 1)]
  /\ UNCHANGED <<modulePc, wrapped, isReadOnly, env, platform, config, listed, arrival, globalSqlPool,
                 nextPool, poolConnected, closeCalled, fired, reconnectDue>>

\* The handler's promise resolves: the result is returned as text.
HandlerReturns(d) ==
  /\ req[d].pc = "running"
  /\ req' = [req EXCEPT ![d] = Done(Settled(req[d]), ResultEnvelope)]
  /\ UNCHANGED <<modulePc, wrapped, isReadOnly, env, platform, config, listed, arrival, globalSqlPool,
                 nextPool, poolConnected, closeCalled, fired, reconnectDue>>

\* The handler's promise rejects with message m: the catch of the CallTool
\* handler.
HandlerThrows(d, m) ==
  /\ req[d].pc = "running"
  /\ req' = [req EXCEPT ![d] = OnHandlerFault(req[d], m)]
  /\ UNCHANGED <<modulePc, wrapped, isReadOnly, env, platform, config, listed, arrival, globalSqlPool,
                 nextPool, poolConnected, closeCalled, fired, reconnectDue>>

\* The envelope is sent; the slot is free again.
Respond(d) ==
  /\ req[d].pc = "done"
  /\ req' = [req EXCEPT ![d] = IdleReq]
  /\ arrival' = SelectSeq(arrival, LAMBDA e : e # d)
  /\ UNCHANGED <<modulePc, wrapped, isReadOnly, env, platform, config, listed, globalSqlPool,
                 nextPool, poolConnected, closeCalled, fired, reconnectDue>>

\* ------------------------------------------------------------ driver events
\* Pool p emits 'error': the observer registered on it runs.
PoolError(p) ==
  /\ p < nextPool
  /\ globalSqlPool' = OnPoolError(globalSqlPool)
  /\ fired' = fired \cup {p}
  /\ reconnectDue' = TRUE
  /\ UNCHANGED <<modulePc, wrapped, isReadOnly, env, platform, config, listed, arrival, nextPool,
                 poolConnected, closeCalled, req>>

\* Pool p loses its connection: p.connected becomes false.
PoolDisconnects(p) ==
  /\ p < nextPool
  /\ poolConnected[p]
  /\ poolConnected' = [poolConnected EXCEPT ![p] = FALSE]
  /\ UNCHANGED <<modulePc, wrapped, isReadOnly, env, platform, config, listed, arrival, globalSqlPool,
                 nextPool, closeCalled, fired, reconnectDue, req>>

Next ==
  \/ SetRequestHandlers
  \/ RunServer
  \/ WrapTools
  \/ \E d \in Dispatches, q \in Requests : Receive(d, q)
  \/ \E d \in Dispatches : Dispatch(d)
  \/ \E d \in Dispatches, err \in {NoError} \cup CloseErrors : CloseSettles(d, err)
  \/ \E d \in Dispatches : ConnectResolves(d)
  \/ \E d \in Dispatches, m \in ConnectErrors : ConnectRejects(d, m)
  \/ \E d \in Dispatches : BackoffElapses(d)
  \/ \E d \in Dispatches : HandlerReturns(d)
  \/ \E d \in Dispatches, m \in HandlerErrors : HandlerThrows(d, m)
  \/ \E d \in Dispatches : Respond(d)
  \/ \E p \in PoolIds : PoolError(p)
  \/ \E p \in PoolIds : PoolDisconnects(p)

Spec == Init /\ [][Next]_vars

\* ------------------------------------------------------------ ListTools
\* A ListTools request arrives and its handler answers in the same callback.
ListTools ==
  /\ modulePc = "eventLoop"
  /\ listed' = ListedTools(isReadOnly)
  /\ UNCHANGED <<modulePc, wrapped, isReadOnly, env, platform, config, arrival,
                 globalSqlPool, nextPool, poolConnected, closeCalled, fired,
                 reconnectDue, req>>

\* The server under CallTool and ListTools requests.
ListNext == Next \/ ListTools

ListSpec == Init /\ [][ListNext]_vars

\* ------------------------------------------------------------ createSqlConfig alone
\* createSqlConfig is exported: a caller resolves the config of the
\* environment and platform the process runs under.
ConfigInit ==
  /\ modulePc = "eventLoop"
  /\ wrapped = WrappedTools
  /\ isReadOnly = FALSE
  /\ env \in ConfigEnvs
  /\ platform \in Platforms
  /\ config = NoConfig
  /\ listed = NoList
  /\ arrival = <<>>
  /\ globalSqlPool = NoPool
  /\ nextPool = 1
  /\ poolConnected = [p \in PoolIds |-> FALSE]
  /\ closeCalled = {}
  /\ fired = {}
  /\ reconnectDue = FALSE
  /\ req = [d \in Dispatches |-> IdleReq]

ResolveConfig ==
  /\ config = NoConfig
  /\ config' = createSqlConfig(env, platform)
  /\ UNCHANGED <<modulePc, wrapped, isReadOnly, env, platform, listed, arrival,
                 globalSqlPool, nextPool, poolConnected, closeCalled, fired,
                 reconnectDue, req>>

ConfigNext == ResolveConfig

ConfigSpec == ConfigInit /\ [][ConfigNext]_vars

TypeOK ==
  /\ modulePc \in {"setRequestHandlers", "runServer", "wrapTools", "eventLoop"}
  /\ wrapped \subseteq Tools
  /\ globalSqlPool \in {NoPool} \cup PoolIds
  /\ nextPool \in 1..(MaxPools + 1)
  /\ \A d \in Dispatches :
       req[d].pc \in {"idle", "received", "closing", "connecting", "backoff", "running", "done"}


\* ============================================================ properties
\* The step in which the CallTool handler of slot d runs on its request.
Dispatched(d) == req[d].pc = "received" /\ req'[d].pc # "received"

\* The step in which the handler of slot d is invoked.
Invoked(d) == req'[d].handlerRuns > req[d].handlerRuns

\* The step in which ensureSqlConnection of slot d fails (the dispatch ends with
\* the error of the connection sequence, not with a handler's outcome).
EnsureFailed(d) ==
  /\ req[d].pc \in {"received", "closing", "connecting", "backoff"}
  /\ req'[d].pc = "done"
  /\ req'[d].attempt >= 1

\* Operations whose argument schema has required fields (every one but the
\* table listing).
RequiresArguments(name) == name \in ToolNames \ {"list_table"}

\* ---------------------------------------------------------------- C1
\* C1 (as claimed): a dispatch naming an operation that is not listed for the
\* active mode - in READONLY mode every write operation - ends at once with an
\* error envelope, without a connection attempt and without running a handler.
C1_UnlistedRejected ==
  [][\A d \in Dispatches :
       (Dispatched(d) /\ SwitchCase(req[d].name) \notin ListedTools(isReadOnly))
         => /\ req'[d].pc = "done"
            /\ req'[d].envelope.isError
            /\ req'[d].connects = 0
            /\ req'[d].handlerRuns = 0]_vars

\* ---------------------------------------------------------------- C2
\* C2: a handler has been invoked in a dispatch only if ensureSqlConnection has
\* returned successfully in that dispatch, at most once, and when it was
\* invoked the reference held a pool that reported connected; and a request
\* is in flight only when all eight tools are wrapped.
C2_HandlerOnlyAfterEnsure ==
  \A d \in Dispatches :
    /\ req[d].handlerRuns > 0 => req[d].ensureOk /\ req[d].handlerRuns = 1
    /\ req[d].pc = "running"
         => /\ req[d].handlerRuns = 1
            /\ req[d].usedPool # NoPool
            /\ req[d].usedReady
    /\ req[d].pc # "idle" => wrapped = Tools

\* Witness of C2: a handler is running after a connection sequence of its own
\* dispatch succeeded.
C2_Witness ==
  \E d \in Dispatches :
    req[d].pc = "running" /\ req[d].ensureOk /\ req[d].connects >= 1

\* ---------------------------------------------------------------- C3
\* C3 (as claimed): at most one pool reports connected at any time.
C3_AtMostOneLivePool == Cardinality({p \in PoolIds : poolConnected[p]}) <= 1

\* ---------------------------------------------------------------- C4
\* C4: ensureSqlConnection entered while the reference holds a pool that
\* reports connected makes no connect call, no close call and no wait, returns
\* successfully and leaves the reference and the driver's pools as they were.
C4_FastPathNoEffects ==
  [][\A d \in Dispatches :
       (/\ Dispatched(d)
        /\ EnsureCalled(req[d])
        /\ globalSqlPool # NoPool
        /\ poolConnected[globalSqlPool])
         => /\ req'[d].ensureOk
            /\ req'[d].pc = "running"
            /\ req'[d].connects = 0
            /\ req'[d].attempt = 0
            /\ req'[d].waits = <<>>
            /\ req'[d].usedPool = globalSqlPool
            /\ globalSqlPool' = globalSqlPool
            /\ nextPool' = nextPool
            /\ poolConnected' = poolConnected
            /\ closeCalled' = closeCalled]_vars

\* Witness of C4: a handler runs on a pool that an earlier dispatch connected.
C4_Witness ==
  \E d \in Dispatches :
    /\ req[d].pc = "running"
    /\ req[d].ensureOk
    /\ req[d].connects = 0
    /\ req[d].usedPool # NoPool

\* ---------------------------------------------------------------- C5
\* C5: a connection sequence makes at most 3 attempts, each with at most one
\* connect call; a call that has returned after connecting made its last
\* connect call at the attempt that succeeded, every earlier attempt having
\* failed; and a call that has failed did so at the 3rd attempt.
C5_AtMostThreeAttempts ==
  \A d \in Dispatches :
    /\ req[d].attempt <= 3
    /\ req[d].connects <= req[d].attempt
    /\ req[d].pc = "connecting" => req[d].connects = req[d].attempt
    /\ (req[d].pc = "running" /\ req[d].attempt >= 1)
         => /\ req[d].connects = req[d].attempt
            /\ Len(req[d].waits) = req[d].attempt - 1
    /\ (req[d].pc = "done" /\ req[d].attempt >= 1)
         => /\ req[d].attempt = 3
            /\ req[d].envelope.isError
            /\ ~req[d].ensureOk
            /\ req[d].handlerRuns = 0

\* Witness of C5: a dispatch has failed after three connect calls.
C5_Witness ==
  \E d \in Dispatches :
    /\ req[d].pc = "done"
    /\ req[d].attempt = 3
    /\ req[d].connects = 3
    /\ req[d].envelope.isError

\* ---------------------------------------------------------------- C6
\* C6: the waits of a connection sequence are 1000 ms after the 1st failed
\* attempt and 2000 ms after the 2nd, one wait per failed attempt but the 3rd;
\* a call that succeeded at the 3rd attempt has waited 3000 ms in all, and the
\* handler then invoked works on a pool that reported connected.
C6_BackoffDelays ==
  \A d \in Dispatches :
    /\ Len(req[d].waits) <= 2
    /\ Len(req[d].waits) >= 1 => req[d].waits[1] = 1000
    /\ Len(req[d].waits) >= 2 => req[d].waits[2] = 2000
    /\ req[d].pc = "backoff" => Len(req[d].waits) = req[d].attempt
    /\ req[d].pc = "connecting" => Len(req[d].waits) = req[d].attempt - 1
    /\ (req[d].pc = "done" /\ req[d].attempt >= 1) => Len(req[d].waits) = 2
    /\ (req[d].pc = "running" /\ req[d].attempt = 3)
         => /\ req[d].waits[1] + req[d].waits[2] = 3000
            /\ req[d].usedPool # NoPool
            /\ req[d].usedReady

\* Witness of C6: attempts 1 and 2 failed, attempt 3 succeeded and the handler
\* is running on the pool it created.
C6_Witness ==
  \E d \in Dispatches :
    /\ req[d].pc = "running"
    /\ req[d].attempt = 3
    /\ req[d].connects = 3
    /\ req[d].waits = <<1000, 2000>>
    /\ req[d].usedPool = globalSqlPool

\* ---------------------------------------------------------------- C7
\* C7 (as claimed): when a connection sequence fails, the error carries the
\* message of the last failure and the reference is absent; and a call entered
\* with the reference absent starts at attempt 1.
C7_FailureLeavesNoPool ==
  [][\A d \in Dispatches :
       /\ EnsureFailed(d)
            => /\ req'[d].envelope = ErrorEnvelope(req'[d].driverErr)
               /\ globalSqlPool' = NoPool
       /\ (Dispatched(d) /\ EnsureCalled(req[d]) /\ globalSqlPool = NoPool)
            => req'[d].attempt = 1]_vars

C9_UnknownToolRejected ==
  [][\A d \in Dispatches :
       (Dispatched(d) /\ req[d].name \notin ToolNames)
         => /\ req'[d].pc = "done"
            /\ req'[d].envelope =
                 [isError |-> TRUE, kind |-> "Unknown tool", detail |-> req[d].name]
            /\ ~req'[d].ensureOk
            /\ req'[d].connects = 0
            /\ req'[d].attempt = 0
            /\ req'[d].handlerRuns = 0
            /\ globalSqlPool' = globalSqlPool
            /\ nextPool' = nextPool
            /\ poolConnected' = poolConnected
            /\ closeCalled' = closeCalled]_vars

\* Witness of C9: the dispatch of "delete_all" has ended with its envelope.
C9_Witness ==
  \E d \in Dispatches :
    /\ req[d].pc = "done"
    /\ req[d].envelope.kind = "Unknown tool"
    /\ req[d].envelope.detail = "delete_all"

\* ---------------------------------------------------------------- C10
\* C10 (as claimed): a dispatch of describe_table without a string tableName,
\* and a dispatch of any operation with required arguments whose arguments are
\* absent, ends at once with an error envelope, without a connection attempt
\* and without running the handler.
C10_ValidationBeforeConnection ==
  [][\A d \in Dispatches :
       (/\ Dispatched(d)
        /\ \/ req[d].name = "describe_table" /\ req[d].args # "valid"
           \/ RequiresArguments(req[d].name) /\ req[d].args = "absent")
         => /\ req'[d].pc = "done"
            /\ req'[d].envelope.isError
            /\ req'[d].connects = 0
            /\ req'[d].handlerRuns = 0]_vars

\* ---------------------------------------------------------------- C11
\* C11: a dispatch holds an envelope exactly when it has ended, and never more
\* than the one it ended with; a dispatch that ended because its connection
\* sequence failed holds an error envelope (isError true) carrying the message
\* of the last failure; one whose handler raised a fault holds an error
\* envelope carrying that fault's message; one whose handler returned holds a
\* success envelope.
C11_OneEnvelopePerDispatch ==
  \A d \in Dispatches :
    /\ req[d].pc = "done" <=> req[d].envelope # NoEnvelope
    /\ (req[d].pc = "done" /\ req[d].attempt >= 1)
         => /\ req[d].handlerRuns = 0
            /\ req[d].lastError # NoError
            /\ req[d].envelope =
                 [isError |-> TRUE, kind |-> "Error occurred",
                  detail |-> req[d].lastError]
    /\ (req[d].pc = "done" /\ req[d].handlerRuns >= 1 /\ req[d].fault # NoError)
         => req[d].envelope =
              [isError |-> TRUE, kind |-> "Error occurred", detail |-> req[d].fault]
    /\ (req[d].pc = "done" /\ req[d].handlerRuns >= 1 /\ req[d].fault = NoError)
         => req[d].envelope = [isError |-> FALSE, kind |-> "result", detail |-> ""]
    /\ req[d].pc # "done" => req[d].fault = NoError

\* Witness of C11: one dispatch has ended with the error of its failed
\* connection sequence and another with the fault its handler raised.
C11_Witness ==
  \E d, e \in Dispatches :
    /\ req[d].pc = "done" /\ req[d].attempt = 3 /\ req[d].envelope.isError
    /\ req[e].pc = "done" /\ req[e].fault \in HandlerErrors /\ req[e].envelope.isError

\* ---------------------------------------------------------------- C12
\* C12: the mode never changes; a ListTools answer under READONLY holds exactly
\* the list-tables, read-data and describe-table tools and no writing tool; an
\* answer in full mode holds all 8 tools; and an answer, once given, is the
\* answer of every later ListTools request.
C12_ListFilteredByMode ==
  [][/\ isReadOnly' = isReadOnly
     /\ (listed' # NoList /\ isReadOnly')
          => /\ listed' = {"listTableTool", "readDataTool", "describeTableTool"}
             /\ listed' \cap {"insertDataTool", "updateDataTool", "createTableTool",
                              "createIndexTool", "dropTableTool"} = {}
     /\ (listed' # NoList /\ ~isReadOnly')
          => listed' = Tools /\ Cardinality(listed') = 8
     /\ listed # NoList => listed' = listed]_vars

\* Witness of C12: a ListTools request has been answered under READONLY while
\* a CallTool dispatch is in flight.
C12_Witness ==
  /\ isReadOnly
  /\ listed = {"listTableTool", "readDataTool", "describeTableTool"}
  /\ \E d \in Dispatches : req[d].pc = "running"

\* The text of a numeric environment variable is a decimal integer and nothing
\* else.
IsIntegerText(e) == e.set /\ e.numeric /\ ~e.rest

\* ---------------------------------------------------------------- C13
\* C13 (as claimed): createSqlConfig fails when PORT is an integer outside
\* 1..65535 and when PORT is text that is not a number; it succeeds with that
\* port when PORT is an integer inside 1..65535, and with port 1433 when PORT
\* is unset.
C13_PortValidated ==
  config # NoConfig =>
    /\ (IsIntegerText(env.PORT) /\ env.PORT.val \notin 1..65535) => ~config.ok
    /\ (Truthy(env.PORT) /\ ~IsIntegerText(env.PORT)) => ~config.ok
    /\ (IsIntegerText(env.PORT) /\ env.PORT.val \in 1..65535)
         => config.ok /\ config.port = env.PORT.val
    /\ ~env.PORT.set => config.ok /\ config.port = 1433

\* ---------------------------------------------------------------- C14
\* C14 (as claimed): createSqlConfig fails when SERVER_NAME, DATABASE_NAME,
\* SQL_USERNAME or SQL_PASSWORD is absent; a config it returns has all four.
C14_RequiredFieldsPresent ==
  config # NoConfig =>
    /\ (\/ ~env.SERVER_NAME.set
         \/ ~env.DATABASE_NAME.set
         \/ ~env.SQL_USERNAME.set
         \/ ~env.SQL_PASSWORD.set) => ~config.ok
    /\ config.ok => /\ config.server.set
                    /\ config.database.set
                    /\ config.user.set
                    /\ config.password.set

C15_InvokedInArrivalOrder ==
  \A i, j \in 1..Len(arrival) :
    (i < j /\ req[arrival[j]].handlerRuns >= 1)
      => \/ req[arrival[i]].handlerRuns >= 1
         \/ req[arrival[i]].pc = "done"

\* ---------------------------------------------------------------- C17
\* C17: ensureSqlConnection entered while the reference holds a pool that does
\* not report connected calls close on that pool before any connect call;
\* when close settles, raising or not, the reference is cleared and attempt 1
\* starts in the same step with the reference absent; and no handler is ever
\* invoked on a pool that close was called on.
C17_StalePoolClosedAndCleared ==
  [][\A d \in Dispatches :
       /\ (/\ Dispatched(d)
            /\ EnsureCalled(req[d])
            /\ globalSqlPool # NoPool
            /\ ~poolConnected[globalSqlPool])
             => /\ req'[d].pc = "closing"
                /\ globalSqlPool \in closeCalled'
                /\ req'[d].connects = 0
                /\ req'[d].handlerRuns = 0
       /\ (req[d].pc = "closing" /\ req'[d].pc # "closing")
             => /\ globalSqlPool' = NoPool
                /\ req'[d].attempt = 1
                /\ req'[d].pc \in {"connecting", "backoff"}
                /\ req'[d].handlerRuns = 0
       /\ req'[d].attempt >= 1 /\ req[d].attempt = 0
             => globalSqlPool' = NoPool
       /\ Invoked(d) => req'[d].usedPool \notin closeCalled']_vars

\* Witness of C17: close of the stale pool raised, the reference is absent and
\* the first connect call of the same dispatch is pending.
C17_Witness ==
  \E d \in Dispatches :
    /\ req[d].closeErr \in CloseErrors
    /\ req[d].pc = "connecting"
    /\ req[d].attempt = 1
    /\ closeCalled # {}
    /\ globalSqlPool = NoPool

\* ---------------------------------------------------------------- C18
\* C18: the step in which a handler's fault ends a dispatch leaves the
\* reference, the pools and the close calls as they were and does not invoke
\* the handler again; and in no dispatch is the handler invoked more than once.
C18_FaultKeepsPoolNoRetry ==
  [][\A d \in Dispatches :
       /\ (req[d].pc = "running" /\ req'[d] # req[d])
            => req'[d].pc = "done" /\ req'[d].handlerRuns = req[d].handlerRuns
       /\ (req[d].pc = "running" /\ req'[d].pc = "done" /\ req'[d].envelope.isError)
            => /\ globalSqlPool' = globalSqlPool
               /\ nextPool' = nextPool
               /\ poolConnected' = poolConnected
               /\ closeCalled' = closeCalled
               /\ fired' = fired
       /\ req'[d].handlerRuns <= 1]_vars

\* Witness of C18: a dispatch has ended with its handler's fault and the
\* reference still holds the connected pool.
C18_Witness ==
  \E d \in Dispatches :
    /\ req[d].pc = "done"
    /\ req[d].fault \in HandlerErrors
    /\ req[d].handlerRuns = 1
    /\ globalSqlPool # NoPool
    /\ poolConnected[globalSqlPool]
    /\ fired = {}

C20_NoPoolLeaked ==
  \A p \in PoolIds :
    p < nextPool => (p = globalSqlPool \/ p \in closeCalled)

\* ---------------------------------------------------------------- C21
\* C21 (as claimed): a dispatch in which createSqlConfig has failed inside
\* ensureSqlConnection has made no connect call, has not waited, is at its
\* first attempt and has ended with the error envelope, and the reference is
\* absent.
C21_ConfigFailureAtFirstAttempt ==
  \A d \in Dispatches :
    req[d].lastError = ConfigError
      => /\ req[d].connects = 0
         /\ req[d].waits = <<>>
         /\ req[d].attempt = 1
         /\ req[d].pc = "done"
         /\ req[d].envelope.isError
         /\ globalSqlPool = NoPool

====
